---- MODULE Spec2Model ----
(***************************************************************************)
(* WhatsApp sender service: the connection lifecycle (initClient, the      *)
(* reconnect supervisor, the backend client's event handlers), the retry   *)
(* executor withRetries, the media resolver and the POST /send-whatsapp    *)
(* dispatcher loop, modelled from src/unnamed/part_000 (lines 1-377, the   *)
(* current version of the service).                                        *)
(*                                                                         *)
(* Specifications:                                                         *)
(*   LifeSpec      startup, the supervisor's timers, initialize() settling *)
(*                 and every event of the backend client                   *)
(*   LifeFairSpec  LifeSpec with the timers firing                         *)
(*   Spec          one POST /send-whatsapp at a time, with startup and the *)
(*                 events that write clientReady (all the handler reads of *)
(*                 the session)                                            *)
(*   RetrySpec     one withRetries call on an operation of the environment *)
(*   RetryFairSpec RetrySpec with the operation settling and timers firing *)
(*   NormSpec      one normalizeNumber call, for each raw string and each  *)
(*                 configured DEFAULT_COUNTRY_CODE                         *)
(*   ApiSpec       LifeSpec with the GET handlers                          *)
(*   HealFairSpec  the lifecycle with a backend that answers initialize()  *)
(*                 with ready, timers firing                               *)
(*   ConcSpec      two POST /send-whatsapp requests in flight together     *)
(*                 against a ready session                                 *)
(*   FrameSpec     the four HTTP routes with startup and the ready,        *)
(*                 auth_failure, disconnected and qr events                *)
(***************************************************************************)
EXTENDS Integers, Sequences, FiniteSets, TLC

(***************************************************************************)
(* Program constants                                                       *)
(***************************************************************************)
MAX_RETRIES == 3
RETRY_BASE_MS == 500
RECONNECT_MAX_DELAY_MS == 30000

(***************************************************************************)
(* Bounds of the model                                                     *)
(***************************************************************************)
\* the supervisor's attempt counter stops growing here (its delay is capped
\* at RECONNECT_MAX_DELAY_MS from retries = 6 on)
MaxTickRetries == 7
\* initialize() calls made by the supervisor that may be pending together
MaxPendingInit == 2
\* qr events (each one stamps lastQrAt with a later time)
MaxQr == 1
\* recipients of one send request
MaxRecipients == 2
\* recipients of each of the two requests in flight together
MaxConcRecipients == 2
\* characters of the raw string handed to normalizeNumber on its own
MaxRawLen == 12

Min(a, b) == IF a <= b THEN a ELSE b

RECURSIVE Pow2(_)
Pow2(n) == IF n <= 0 THEN 1 ELSE 2 * Pow2(n - 1)

\* function backoffDelay(attempt)
backoffDelay(attempt) == RETRY_BASE_MS * Pow2(attempt)

(***************************************************************************)
(* State                                                                   *)
(***************************************************************************)
VARIABLES
    started,        \* the module's top level has run initClient() (line 349)
    clientReady,    \* let clientReady
    clientState,    \* let clientState
    reconnectTimer, \* let reconnectTimer: "null" or "interval"
    intervals,      \* setInterval timers set and not cleared
    lastQr,         \* let lastQr: "null" or the payload
    lastQrAt,       \* let lastQrAt: 0 (null) or the time of the last qr event
    initializing,   \* let initializing
    retries,        \* the armed interval's closure variable (0 when none is armed)
    tick,           \* the interval callback: idle, or suspended in sleep(delay)
    pendingInit,    \* client.initialize() calls started and not yet settled, per caller
    supInit         \* what last happened to an initialize() call of the supervisor

VARIABLES
    pc,             \* the await the POST /send-whatsapp handler is suspended at ("idle": none)
    body,           \* req.body of the request in flight (or of the last one)
    media,          \* let media
    results,        \* const results
    idx,            \* position of the for...of loop in numbers (1-based)
    wr,             \* the frame of the withRetries call in progress
    res,            \* the response sent for the last request
    cur,            \* what the backend answered for the recipient being processed
    touched,        \* kinds of external calls the request in flight has made
    mediaTry,       \* the calls of the buildMediaFromUrl attempt in progress (or of the last one)
    inflight,       \* backend calls of the request awaited and not settled: [op, i]
    readyAtArrival  \* clientReady when the request in flight arrived

VARIABLES
    rt,             \* a withRetries call on its own (RetrySpec)
    nz,             \* a normalizeNumber call on its own (NormSpec)
    got,            \* the response to the last GET request (ApiSpec)
    reqs            \* the POST /send-whatsapp requests in flight together (ConcSpec)

lifeVars == <<started, clientReady, clientState, reconnectTimer, intervals, lastQr,
              lastQrAt, initializing, retries, tick, pendingInit, supInit>>

httpVars == <<pc, body, media, results, idx, wr, res, cur, touched, mediaTry,
              inflight, readyAtArrival>>

auxVars == <<rt, nz, got, reqs>>

vars == <<lifeVars, httpVars, auxVars>>

QrPayloads == {"qrA"}
\* the argument of a change_state event; "" stands for a falsy state
WaStates == {"CONNECTED", ""}

TickIdle == [pc |-> "idle", delay |-> 0]

(***************************************************************************)
(* Values                                                                  *)
(***************************************************************************)
\* A string the code inspects is a sequence of one-character strings; an
\* error is its message, a sequence of words.
Digits == {"0", "1", "2", "3", "4", "5", "6", "7", "8", "9"}

\* const DEFAULT_COUNTRY_CODE (the example of the file's header: 57)
DEFAULT_COUNTRY_CODE == <<"5", "7">>

RawInvalid == <<"1", "2", "-", "3">>
RawLocal == <<"3", "0", "0", "1", "2", "3", "4", "5", "6", "7">>
RawNumbers == {RawInvalid, RawLocal}

ErrTimeout == <<"Timeout">>
ErrEval == <<"Evaluation", "failed">>
ErrSerialize == <<"Cannot", "serialize", "message">>
ErrGetModel == <<"getMessageModel", "undefined">>
LookupErrors == {ErrTimeout, ErrEval}
SendErrors == {ErrTimeout, ErrSerialize, ErrGetModel}
MediaErrors == {ErrTimeout}
NoErr == <<>>

\* the content-type header of the fallback fetch; "" when the header is absent
ContentTypes == {"", "image/gif"}
\* the mime type MessageMedia.fromUrl finds by itself
PrimaryMimes == {"image/png"}
NoMedia == "null"

ImageUrls == {"", "http://host/a.png"}
Texts == {"", "hi"}

RECURSIVE SeqsUpTo(_, _)
SeqsUpTo(S, n) ==
    IF n = 0 THEN {<<>>}
    ELSE LET shorter == SeqsUpTo(S, n - 1)
         IN shorter \cup {Append(q, x) : q \in {t \in shorter : Len(t) = n - 1}, x \in S}

\* req.body.numbers: undefined, a value that is no array, or an array
NumbersValues ==
    {[kind |-> "undefined", items |-> <<>>], [kind |-> "string", items |-> <<>>]}
    \cup {[kind |-> "array", items |-> q] : q \in SeqsUpTo(RawNumbers, MaxRecipients)}

Bodies == [numbers : NumbersValues, imageUrl : ImageUrls, text : Texts]

NoBody == [numbers |-> [kind |-> "undefined", items |-> <<>>], imageUrl |-> "", text |-> ""]
NoRes == [status |-> 0, error |-> "", info |-> NoErr, sent |-> 0, failed |-> 0, detail |-> <<>>]
NoFrame == [attempt |-> 0, lastErr |-> NoErr, st |-> "none", delay |-> 0]
NoCur == [lookups |-> 0, lookup |-> "none", lookupErr |-> NoErr, prewarm |-> "none",
          content |-> "none", sends |-> 0, send |-> "none", sendErr |-> NoErr,
          transmits |-> 0]
\* n: buildMediaFromUrl calls of the request so far; ct: the content-type header
\* the fallback fetch got
NoTry == [n |-> 0, primary |-> "none", fallback |-> "none", ct |-> ""]
NoRt == [w |-> NoFrame, calls |-> 0, sleeps |-> <<>>, log |-> <<>>, value |-> ""]
RetryValues == {"v1", "v2", "v3"}
RetryErrors == {ErrTimeout, ErrEval, ErrSerialize}

HttpInit ==
    /\ pc = "idle"
    /\ body = NoBody
    /\ media = NoMedia
    /\ results = <<>>
    /\ idx = 0
    /\ wr = NoFrame
    /\ res = NoRes
    /\ cur = NoCur
    /\ touched = {}
    /\ mediaTry = NoTry
    /\ inflight = {}
    /\ readyAtArrival = FALSE

LifeInit ==
    /\ started = FALSE
    /\ clientReady = FALSE
    /\ clientState = "INIT"
    /\ reconnectTimer = "null"
    /\ intervals = 0
    /\ lastQr = "null"
    /\ lastQrAt = 0
    /\ initializing = FALSE
    /\ retries = 0
    /\ tick = TickIdle
    /\ pendingInit = [startup |-> 0, tick |-> 0]
    /\ supInit = "none"

\* no normalizeNumber call
NoNz == [env |-> <<>>, raw |-> <<>>, st |-> "none", out |-> <<>>]
\* no GET request answered yet
NoGot == [route |-> "none", status |-> 0, ready |-> FALSE, state |-> "", lastQrAt |-> 0,
          qr |-> "null"]

\* the requests of ConcSpec and the handler's frame for one of them: its
\* locals (body, results, idx, the withRetries frame), the response sent, and
\* for each entry the request whose handler pushed it (by, resBy), for each
\* getNumberId call the position of its recipient (looked)
Requests == {1, 2}
NoReq == [pc |-> "idle", body |-> NoBody, results |-> <<>>, by |-> <<>>, idx |-> 0,
          wr |-> NoFrame, looked |-> <<>>, res |-> NoRes, resBy |-> <<>>]
NoReqs == [r \in Requests |-> NoReq]

Init == LifeInit /\ HttpInit /\ rt = NoRt /\ nz = NoNz /\ got = NoGot /\ reqs = NoReqs

(***************************************************************************)
(* Connection lifecycle                                                    *)
(***************************************************************************)
\* async function scheduleReconnect(): arms the interval unless one is armed
scheduleReconnect ==
    IF reconnectTimer # "null"
    THEN UNCHANGED <<reconnectTimer, intervals, retries>>
    ELSE /\ reconnectTimer' = "interval"
         /\ intervals' = intervals + 1
         /\ retries' = 0

\* async function initClient(), called by `caller`: a no-op while the flag is up,
\* else it raises the flag and starts client.initialize()
initClient(caller) ==
    IF initializing
    THEN UNCHANGED <<initializing, pendingInit>>
    ELSE /\ initializing' = TRUE
         /\ pendingInit' = [pendingInit EXCEPT ![caller] = @ + 1]

\* initClient().catch(...) at the module's top level
Startup ==
    /\ ~started
    /\ started' = TRUE
    /\ initClient("startup")
    /\ UNCHANGED <<clientReady, clientState, reconnectTimer, intervals, lastQr, lastQrAt,
                   retries, tick, supInit>>
    /\ UNCHANGED <<httpVars, auxVars>>

\* the rejection handler of the top-level initClient()
StartupInitRejects ==
    /\ pendingInit.startup = 1
    /\ pendingInit' = [pendingInit EXCEPT !.startup = 0]
    /\ initializing' = FALSE
    /\ scheduleReconnect
    /\ UNCHANGED <<started, clientReady, clientState, lastQr, lastQrAt, tick, supInit>>
    /\ UNCHANGED <<httpVars, auxVars>>

\* the top-level initialize() resolves: nothing runs
StartupInitResolves ==
    /\ pendingInit.startup = 1
    /\ pendingInit' = [pendingInit EXCEPT !.startup = 0]
    /\ UNCHANGED <<started, clientReady, clientState, reconnectTimer, intervals, lastQr, lastQrAt,
                   initializing, retries, tick, supInit>>
    /\ UNCHANGED <<httpVars, auxVars>>

\* the setInterval callback up to its await sleep(delay).  The interval is
\* 35 s and the delay at most 30 s, so the callback of the tick before has left
\* its sleep when the next one runs.
TickCheck ==
    /\ reconnectTimer # "null"
    /\ tick.pc = "idle"
    /\ ~(clientReady \/ initializing)
    /\ retries' = IF retries < MaxTickRetries THEN retries + 1 ELSE retries
    /\ tick' = [pc |-> "sleeping",
                delay |-> Min(RECONNECT_MAX_DELAY_MS, backoffDelay(retries'))]
    /\ UNCHANGED <<started, clientReady, clientState, reconnectTimer, intervals, lastQr, lastQrAt,
                   initializing, pendingInit, supInit>>
    /\ UNCHANGED <<httpVars, auxVars>>

\* mutant of TickWake: the callback returns after its sleep without calling
\* initClient()
TickWakeNoCall ==
    /\ tick.pc = "sleeping"
    /\ tick' = TickIdle
    /\ UNCHANGED <<started, clientReady, clientState, reconnectTimer, intervals, lastQr,
                   lastQrAt, initializing, retries, pendingInit, supInit>>
    /\ UNCHANGED <<httpVars, auxVars>>

\* the callback after sleep(delay): await initClient().  (It waits when the
\* call would take the pending initialize() calls past MaxPendingInit.)
TickWake ==
    /\ tick.pc = "sleeping"
    /\ initializing \/ pendingInit.tick < MaxPendingInit
    /\ tick' = TickIdle
    /\ initClient("tick")
    /\ supInit' = IF initializing THEN supInit ELSE "called"
    /\ UNCHANGED <<started, clientReady, clientState, reconnectTimer, intervals, lastQr, lastQrAt,
                   retries>>
    /\ UNCHANGED <<httpVars, auxVars>>

\* an initialize() of the supervisor rejects: the callback's catch only logs
TickInitRejects ==
    /\ pendingInit.tick > 0
    /\ pendingInit' = [pendingInit EXCEPT !.tick = @ - 1]
    /\ supInit' = "rejected"
    /\ UNCHANGED <<started, clientReady, clientState, reconnectTimer, intervals, lastQr, lastQrAt,
                   initializing, retries, tick>>
    /\ UNCHANGED <<httpVars, auxVars>>

\* an initialize() of the supervisor resolves
TickInitResolves ==
    /\ pendingInit.tick > 0
    /\ pendingInit' = [pendingInit EXCEPT !.tick = @ - 1]
    /\ supInit' = "resolved"
    /\ UNCHANGED <<started, clientReady, clientState, reconnectTimer, intervals, lastQr, lastQrAt,
                   initializing, retries, tick>>
    /\ UNCHANGED <<httpVars, auxVars>>

\* client.on('qr')
OnQr ==
    /\ started
    /\ lastQrAt < MaxQr
    /\ \E qr \in QrPayloads : lastQr' = qr
    /\ lastQrAt' = lastQrAt + 1
    /\ UNCHANGED <<started, clientReady, clientState, reconnectTimer, intervals, initializing,
                   retries, tick, pendingInit, supInit>>
    /\ UNCHANGED <<httpVars, auxVars>>

\* client.on('change_state'); an event that repeats the current state changes
\* nothing
OnChangeState ==
    /\ started
    /\ \E state \in WaStates :
          /\ clientState' = IF state # "" THEN state ELSE "UNKNOWN"
          /\ clientState' # clientState
    /\ UNCHANGED <<started, clientReady, reconnectTimer, intervals, lastQr, lastQrAt, initializing,
                   retries, tick, pendingInit, supInit>>
    /\ UNCHANGED <<httpVars, auxVars>>

\* client.on('ready'); clearInterval drops the interval and its counter
OnReady ==
    /\ started
    /\ clientReady' = TRUE
    /\ initializing' = FALSE
    /\ reconnectTimer' = "null"
    /\ intervals' = IF reconnectTimer # "null" THEN intervals - 1 ELSE intervals
    /\ retries' = 0
    /\ supInit' = "none"
    /\ UNCHANGED <<started, clientState, lastQr, lastQrAt, tick, pendingInit>>
    /\ UNCHANGED <<httpVars, auxVars>>

\* client.on('auth_failure')
OnAuthFailure ==
    /\ started
    /\ clientReady' = FALSE
    /\ initializing' = FALSE
    /\ scheduleReconnect
    /\ supInit' = "none"
    /\ UNCHANGED <<started, clientState, lastQr, lastQrAt, tick, pendingInit>>
    /\ UNCHANGED <<httpVars, auxVars>>

\* client.on('disconnected')
OnDisconnected ==
    /\ started
    /\ clientReady' = FALSE
    /\ initializing' = FALSE
    /\ scheduleReconnect
    /\ supInit' = "none"
    /\ UNCHANGED <<started, clientState, lastQr, lastQrAt, tick, pendingInit>>
    /\ UNCHANGED <<httpVars, auxVars>>

LifeNext ==
    \/ Startup
    \/ StartupInitRejects
    \/ StartupInitResolves
    \/ TickCheck
    \/ TickWake
    \/ TickInitRejects
    \/ TickInitResolves
    \/ OnQr
    \/ OnChangeState
    \/ OnReady
    \/ OnAuthFailure
    \/ OnDisconnected

LifeSpec == Init /\ [][LifeNext]_vars

\* timers fire: the interval's callback runs and its sleep ends; the top level
\* of the module runs.  Nothing is assumed of the backend.
LifeFairSpec ==
    /\ LifeSpec
    /\ WF_vars(Startup)
    /\ WF_vars(TickCheck)
    /\ WF_vars(TickWake)

(***************************************************************************)
(* The lifecycle with a backend that works: every initialize() call is       *)
(* answered with a ready event (emitted by initialize() before its promise   *)
(* resolves, whose continuations do nothing), and sessions drop at any time. *)
(***************************************************************************)
InitializeBringsReady ==
    /\ \E caller \in {"startup", "tick"} :
          /\ pendingInit[caller] > 0
          /\ pendingInit' = [pendingInit EXCEPT ![caller] = @ - 1]
          /\ supInit' = IF caller = "tick" THEN "resolved" ELSE "none"
    /\ clientReady' = TRUE
    /\ initializing' = FALSE
    /\ reconnectTimer' = "null"
    /\ intervals' = IF reconnectTimer # "null" THEN intervals - 1 ELSE intervals
    /\ retries' = 0
    /\ UNCHANGED <<started, clientState, lastQr, lastQrAt, tick>>
    /\ UNCHANGED <<httpVars, auxVars>>

HealNext ==
    \/ Startup
    \/ TickCheck
    \/ TickWake
    \/ InitializeBringsReady
    \/ OnQr
    \/ OnChangeState
    \/ OnAuthFailure
    \/ OnDisconnected

HealSpec == Init /\ [][HealNext]_vars

\* the timers fire and the backend answers
HealFairSpec ==
    /\ HealSpec
    /\ WF_vars(Startup)
    /\ WF_vars(TickCheck)
    /\ WF_vars(TickWake)
    /\ WF_vars(InitializeBringsReady)

(***************************************************************************)
(* Pure functions                                                          *)
(***************************************************************************)
\* msg.includes(marker), for a marker that is one word
includes(msg, marker) == \E i \in DOMAIN msg : msg[i] = marker

\* (process.env.DEFAULT_COUNTRY_CODE || '').replace(/\D/g, ''); an unset
\* variable is the empty string
countryCodeOf(env) == SelectSeq(env, LAMBDA c : c \in Digits)

\* mutant of normalizeNumberWith: the prefix is put before any short number
normalizeNumberWithAnyShort(cc, raw) ==
    IF raw = <<>> THEN <<>>
    ELSE LET digits == SelectSeq(raw, LAMBDA c : c \in Digits)
         IN IF digits = <<>> THEN <<>>
            ELSE IF Len(digits) >= 11 THEN digits
            ELSE LET d2 == IF Len(digits) <= 10 /\ cc # <<>>
                           THEN cc \o digits
                           ELSE digits
                 IN IF Len(d2) >= 8 THEN d2 ELSE <<>>

\* normalizeNumber with the configured prefix cc; <<>> (the empty string) is null
normalizeNumberWith(cc, raw) ==
    IF raw = <<>> THEN <<>>
    ELSE LET digits == SelectSeq(raw, LAMBDA c : c \in Digits)
         IN IF digits = <<>> THEN <<>>
            ELSE IF Len(digits) >= 11 THEN digits
            ELSE LET d2 == IF Len(digits) >= 8 /\ Len(digits) <= 10 /\ cc # <<>>
                           THEN cc \o digits
                           ELSE digits
                 IN IF Len(d2) >= 8 THEN d2 ELSE <<>>

\* function normalizeNumber(raw)
normalizeNumber(raw) == normalizeNumberWith(DEFAULT_COUNTRY_CODE, raw)

(***************************************************************************)
(* withRetries(fn, label): the frame of one call.  st is "call" while fn()  *)
(* is awaited, "sleep" while sleep(d) is awaited, "throw" once lastErr is   *)
(* thrown.                                                                  *)
(***************************************************************************)
WRStart == [attempt |-> 0, lastErr |-> NoErr, st |-> "call", delay |-> 0]

\* mutant of WRCatch: the delay is taken one attempt too far
WRCatchDelayOff(w, err) ==
    [w EXCEPT !.lastErr = err, !.st = "sleep", !.delay = backoffDelay(w.attempt + 1)]

\* the catch block: fn() failed with err in attempt w.attempt
WRCatch(w, err) ==
    [w EXCEPT !.lastErr = err, !.st = "sleep", !.delay = backoffDelay(w.attempt)]

\* mutant of WRWake: the loop test lets one more attempt through
WRWakeOneMore(w) ==
    IF w.attempt + 1 <= MAX_RETRIES
    THEN [w EXCEPT !.attempt = @ + 1, !.st = "call", !.delay = 0]
    ELSE [w EXCEPT !.attempt = @ + 1, !.st = "throw", !.delay = 0]

\* after sleep(d): attempt++, then the loop test; fn() again or throw lastErr
WRWake(w) ==
    IF w.attempt + 1 < MAX_RETRIES
    THEN [w EXCEPT !.attempt = @ + 1, !.st = "call", !.delay = 0]
    ELSE [w EXCEPT !.attempt = @ + 1, !.st = "throw", !.delay = 0]

(***************************************************************************)
(* POST /send-whatsapp                                                     *)
(***************************************************************************)
Entry(number, status, reason, warning) ==
    [number |-> number, status |-> status, reason |-> reason, warning |-> warning]

MsgInvalid == <<"Numero", "invalido">>
MsgNoAccount == <<"El", "numero", "no", "tiene", "WhatsApp">>
MsgWarning == <<"Bug", "de", "serializacion", "en", "wwebjs">>
MsgMediaPrefix == <<"No", "se", "pudo", "descargar", "la", "imagen:">>

\* mutant of ValidateSend: the readiness check is missing
ValidateSendNoReadyCheck(b, ready) ==
    IF ~(b.numbers.kind = "array") \/ Len(b.numbers.items) = 0
    THEN [status |-> 400, error |-> "Faltan parametros: numbers[]"]
    ELSE IF b.imageUrl = "" /\ b.text = ""
    THEN [status |-> 400, error |-> "Debes enviar imageUrl o text."]
    ELSE [status |-> 0, error |-> ""]

\* mutant of ValidateSend: the readiness check comes first
ValidateSendReadyFirst(b, ready) ==
    IF ~ready
    THEN [status |-> 503, error |-> "El cliente de WhatsApp aun no esta listo."]
    ELSE IF ~(b.numbers.kind = "array") \/ Len(b.numbers.items) = 0
    THEN [status |-> 400, error |-> "Faltan parametros: numbers[]"]
    ELSE IF b.imageUrl = "" /\ b.text = ""
    THEN [status |-> 400, error |-> "Debes enviar imageUrl o text."]
    ELSE [status |-> 0, error |-> ""]

\* the three checks at the top of the handler; status 0: the request goes on
ValidateSend(b, ready) ==
    IF ~(b.numbers.kind = "array") \/ Len(b.numbers.items) = 0
    THEN [status |-> 400, error |-> "Faltan parametros: numbers[]"]
    ELSE IF ~ready
    THEN [status |-> 503, error |-> "El cliente de WhatsApp aun no esta listo."]
    ELSE IF b.imageUrl = "" /\ b.text = ""
    THEN [status |-> 400, error |-> "Debes enviar imageUrl o text."]
    ELSE [status |-> 0, error |-> ""]

CountStatus(rs, statuses) == Cardinality({i \in DOMAIN rs : rs[i].status \in statuses})

\* res.json({status, detail}) after the loop
Respond200(rs) ==
    [NoRes EXCEPT !.status = 200,
                  !.sent = CountStatus(rs, {"sent", "sent_with_warning"}),
                  !.failed = CountStatus(rs, {"failed"}),
                  !.detail = rs]

\* the handler returns: its locals are gone
Return(response) ==
    /\ res' = response
    /\ pc' = "idle"
    /\ media' = NoMedia
    /\ results' = <<>>
    /\ idx' = 0
    /\ wr' = NoFrame
    /\ cur' = NoCur
    /\ mediaTry' = NoTry
    /\ inflight' = {}

\* a call of the backend client for the recipient at position i
Call(op, i) == [op |-> op, i |-> i]

\* the handler up to its first await
PostSendWhatsapp ==
    /\ started
    /\ pc = "idle"
    /\ \E b \in Bodies :
        LET v == ValidateSend(b, clientReady)
        IN /\ body' = b
           /\ readyAtArrival' = clientReady
           /\ IF v.status # 0
              THEN /\ Return([NoRes EXCEPT !.status = v.status, !.error = v.error])
                   /\ touched' = {}
              ELSE /\ res' = NoRes
                   /\ media' = NoMedia
                   /\ results' = <<>>
                   /\ cur' = NoCur
                   /\ inflight' = {}
                   /\ IF b.imageUrl # ""
                      THEN /\ pc' = "fromUrl"
                           /\ wr' = WRStart
                           /\ idx' = 0
                           /\ touched' = {"media"}
                           /\ mediaTry' = [NoTry EXCEPT !.n = 1, !.primary = "pending"]
                      ELSE /\ pc' = "loop"
                           /\ wr' = NoFrame
                           /\ idx' = 1
                           /\ touched' = {}
                           /\ mediaTry' = NoTry
    /\ UNCHANGED <<lifeVars, auxVars>>

\* mutant of FromUrlSettles: the fallback fetch is made whatever the primary
\* path did
FromUrlSettlesAlwaysFallback ==
    /\ pc = "fromUrl"
    /\ \/ \E m \in PrimaryMimes :
            /\ mediaTry' = [mediaTry EXCEPT !.primary = "ok", !.fallback = "pending"]
       \/ \E e \in MediaErrors :
            /\ mediaTry' = [mediaTry EXCEPT !.primary = "err", !.fallback = "pending"]
    /\ pc' = "axios"
    /\ touched' = touched \cup {"fallback"}
    /\ UNCHANGED <<media, idx, wr>>
    /\ UNCHANGED <<lifeVars, auxVars, body, results, res, cur, inflight, readyAtArrival>>

\* buildMediaFromUrl: MessageMedia.fromUrl settles; when it threw, axios.get
\* is called
FromUrlSettles ==
    /\ pc = "fromUrl"
    /\ \/ \E m \in PrimaryMimes :
            /\ media' = m
            /\ mediaTry' = [mediaTry EXCEPT !.primary = "ok"]
            /\ pc' = "loop"
            /\ idx' = 1
            /\ wr' = NoFrame
            /\ UNCHANGED touched
       \/ \E e \in MediaErrors :
            /\ mediaTry' = [mediaTry EXCEPT !.primary = "err", !.fallback = "pending"]
            /\ pc' = "axios"
            /\ touched' = touched \cup {"fallback"}
            /\ UNCHANGED <<media, idx, wr>>
    /\ UNCHANGED <<lifeVars, auxVars, body, results, res, cur, inflight, readyAtArrival>>

\* buildMediaFromUrl: axios.get settles
AxiosSettles ==
    /\ pc = "axios"
    /\ \/ \E ct \in ContentTypes :
            /\ media' = IF ct # "" THEN ct ELSE "image/jpeg"
            /\ mediaTry' = [mediaTry EXCEPT !.fallback = "ok", !.ct = ct]
            /\ pc' = "loop"
            /\ idx' = 1
            /\ wr' = NoFrame
       \/ \E e \in MediaErrors :
            /\ mediaTry' = [mediaTry EXCEPT !.fallback = "err"]
            /\ wr' = WRCatch(wr, MsgMediaPrefix \o e)
            /\ pc' = "sleepMedia"
            /\ UNCHANGED <<media, idx>>
    /\ UNCHANGED <<lifeVars, auxVars, body, results, res, cur, touched, inflight,
                   readyAtArrival>>

\* mutant of MediaRetryWake: the failure is swallowed and the loop starts
\* without media
MediaRetryWakeProceed ==
    /\ pc = "sleepMedia"
    /\ LET w == WRWake(wr)
       IN IF w.st = "call"
          THEN /\ wr' = w
               /\ pc' = "fromUrl"
               /\ mediaTry' = [NoTry EXCEPT !.n = mediaTry.n + 1, !.primary = "pending"]
               /\ UNCHANGED <<media, results, idx, res, cur, inflight>>
          ELSE /\ pc' = "loop"
               /\ idx' = 1
               /\ wr' = NoFrame
               /\ UNCHANGED <<media, results, res, cur, mediaTry, inflight>>
    /\ UNCHANGED <<lifeVars, auxVars, body, touched, readyAtArrival>>

\* withRetries(buildMediaFromUrl) after its sleep
MediaRetryWake ==
    /\ pc = "sleepMedia"
    /\ LET w == WRWake(wr)
       IN IF w.st = "call"
          THEN /\ wr' = w
               /\ pc' = "fromUrl"
               /\ mediaTry' = [NoTry EXCEPT !.n = mediaTry.n + 1, !.primary = "pending"]
               /\ UNCHANGED <<media, results, idx, res, cur, inflight>>
          ELSE Return([NoRes EXCEPT !.status = 400,
                                    !.error = "No se pudo preparar la imagen",
                                    !.info = w.lastErr])
    /\ UNCHANGED <<lifeVars, auxVars, body, touched, readyAtArrival>>

\* mutant of Push: the entry goes to the front
PushFront(entry) == results' = <<entry>> \o results

\* results.push(entry) for the recipient at idx
Push(entry) == results' = Append(results, entry)

\* the head of the for...of loop: the next recipient, or the response
LoopHead ==
    /\ pc = "loop"
    /\ IF idx > Len(body.numbers.items)
       THEN /\ Return(Respond200(results))
            /\ UNCHANGED touched
       ELSE LET raw == body.numbers.items[idx]
                normalized == normalizeNumber(raw)
            IN /\ IF normalized = <<>>
                  THEN /\ Push(Entry(raw, "failed", MsgInvalid, NoErr))
                       /\ cur' = NoCur
                       /\ idx' = idx + 1
                       /\ UNCHANGED <<pc, wr, touched, inflight>>
                  ELSE /\ pc' = "getNumberId"
                       /\ wr' = WRStart
                       /\ cur' = [NoCur EXCEPT !.lookups = 1]
                       /\ touched' = touched \cup {"lookup"}
                       /\ inflight' = inflight \cup {Call("lookup", idx)}
                       /\ UNCHANGED <<results, idx>>
               /\ UNCHANGED <<media, res, mediaTry>>
    /\ UNCHANGED <<lifeVars, auxVars, body, readyAtArrival>>

\* the recipient at idx, as the loop body names it
Normalized == normalizeNumber(body.numbers.items[idx])

\* mutant of GetNumberIdSettles: the `continue` after the entry of a recipient
\* without account is missing
GetNumberIdSettlesNoContinue ==
    /\ pc = "getNumberId"
    /\ \/ /\ cur' = [cur EXCEPT !.lookup = "null", !.lookupErr = NoErr]
          /\ Push(Entry(Normalized, "failed", MsgNoAccount, NoErr))
          /\ inflight' = (inflight \ {Call("lookup", idx)}) \cup {Call("prewarm", idx)}
          /\ pc' = "getChatById"
          /\ wr' = NoFrame
          /\ touched' = touched \cup {"prewarm"}
          /\ UNCHANGED idx
       \/ /\ cur' = [cur EXCEPT !.lookup = "id", !.lookupErr = NoErr]
          /\ inflight' = (inflight \ {Call("lookup", idx)}) \cup {Call("prewarm", idx)}
          /\ pc' = "getChatById"
          /\ wr' = NoFrame
          /\ touched' = touched \cup {"prewarm"}
          /\ UNCHANGED <<results, idx>>
       \/ \E e \in LookupErrors :
          /\ cur' = [cur EXCEPT !.lookup = "err", !.lookupErr = e]
          /\ inflight' = inflight \ {Call("lookup", idx)}
          /\ wr' = WRCatch(wr, e)
          /\ pc' = "sleepLookup"
          /\ UNCHANGED <<results, idx, touched>>
    /\ UNCHANGED <<lifeVars, auxVars, mediaTry, body, media, res, readyAtArrival>>

\* withRetries(() => client.getNumberId(normalized)): the call settles
GetNumberIdSettles ==
    /\ pc = "getNumberId"
    /\ \/ \* numberId is null: the recipient has no account
          /\ cur' = [cur EXCEPT !.lookup = "null", !.lookupErr = NoErr]
          /\ inflight' = inflight \ {Call("lookup", idx)}
          /\ Push(Entry(Normalized, "failed", MsgNoAccount, NoErr))
          /\ idx' = idx + 1
          /\ pc' = "loop"
          /\ wr' = NoFrame
          /\ UNCHANGED touched
       \/ \* numberId found: await client.getChatById(chatId)
          /\ cur' = [cur EXCEPT !.lookup = "id", !.lookupErr = NoErr]
          /\ inflight' = (inflight \ {Call("lookup", idx)}) \cup {Call("prewarm", idx)}
          /\ pc' = "getChatById"
          /\ wr' = NoFrame
          /\ touched' = touched \cup {"prewarm"}
          /\ UNCHANGED <<results, idx>>
       \/ \E e \in LookupErrors :
          /\ cur' = [cur EXCEPT !.lookup = "err", !.lookupErr = e]
          /\ inflight' = inflight \ {Call("lookup", idx)}
          /\ wr' = WRCatch(wr, e)
          /\ pc' = "sleepLookup"
          /\ UNCHANGED <<results, idx, touched>>
    /\ UNCHANGED <<lifeVars, auxVars, mediaTry, body, media, res, readyAtArrival>>

\* mutant of LookupRetryWake: a lookup that keeps failing ends the request
\* (one catch around the whole loop)
LookupRetryWakeAbort ==
    /\ pc = "sleepLookup"
    /\ LET w == WRWake(wr)
       IN IF w.st = "call"
          THEN /\ wr' = w
               /\ pc' = "getNumberId"
               /\ cur' = [cur EXCEPT !.lookups = @ + 1]
               /\ inflight' = inflight \cup {Call("lookup", idx)}
               /\ UNCHANGED <<results, idx, media, res, mediaTry>>
          ELSE Return([NoRes EXCEPT !.status = 500, !.info = w.lastErr])
    /\ UNCHANGED <<lifeVars, auxVars, body, touched, readyAtArrival>>

\* withRetries(getNumberId) after its sleep; a throw lands in the outer catch
LookupRetryWake ==
    /\ pc = "sleepLookup"
    /\ LET w == WRWake(wr)
       IN IF w.st = "call"
          THEN /\ wr' = w
               /\ pc' = "getNumberId"
               /\ cur' = [cur EXCEPT !.lookups = @ + 1]
               /\ inflight' = inflight \cup {Call("lookup", idx)}
               /\ UNCHANGED <<results, idx>>
          ELSE /\ Push(Entry(Normalized, "failed", w.lastErr, NoErr))
               /\ idx' = idx + 1
               /\ pc' = "loop"
               /\ wr' = NoFrame
               /\ UNCHANGED <<cur, inflight>>
    /\ UNCHANGED <<lifeVars, auxVars, mediaTry, body, media, res, touched, readyAtArrival>>

\* what the send step transmits: the media, else the text, else nothing
Content == IF media # NoMedia THEN "media" ELSE IF body.text # "" THEN "text" ELSE "none"

\* try { await client.getChatById(chatId) } catch (_) {}, then the send step starts
GetChatByIdSettles ==
    /\ pc = "getChatById"
    /\ \E outcome \in {"ok", "err"} :
          cur' = [cur EXCEPT !.prewarm = outcome,
                             !.content = Content,
                             !.sends = IF Content = "none" THEN 0 ELSE 1]
    /\ IF Content # "none"
       THEN /\ pc' = "sendMessage"
            /\ wr' = WRStart
            /\ touched' = touched \cup {"send"}
            /\ inflight' = (inflight \ {Call("prewarm", idx)}) \cup {Call("send", idx)}
            /\ UNCHANGED results
       ELSE /\ Push(Entry(Normalized, "sent", NoErr, NoErr))
            /\ pc' = "gap"
            /\ inflight' = inflight \ {Call("prewarm", idx)}
            /\ UNCHANGED <<wr, touched>>
    /\ UNCHANGED <<lifeVars, auxVars, mediaTry, body, media, idx, res, readyAtArrival>>

\* the known defect of the backend: sendMessage transmits the message and
\* then fails to serialize its own return value
IsSerializationDefect(e) == e \in {ErrSerialize, ErrGetModel}

\* withRetries(() => client.sendMessage(...)): the call settles.  The backend
\* has transmitted the message when the call resolves and when it raises the
\* serialization defect; any other error is raised before the transmission.
SendMessageSettles ==
    /\ pc = "sendMessage"
    /\ inflight' = inflight \ {Call("send", idx)}
    /\ \/ /\ cur' = [cur EXCEPT !.send = "ok", !.sendErr = NoErr, !.transmits = @ + 1]
          /\ Push(Entry(Normalized, "sent", NoErr, NoErr))
          /\ pc' = "gap"
          /\ wr' = NoFrame
       \/ \E e \in SendErrors :
          /\ cur' = [cur EXCEPT !.send = "err", !.sendErr = e,
                                !.transmits = IF IsSerializationDefect(e) THEN @ + 1 ELSE @]
          /\ wr' = WRCatch(wr, e)
          /\ pc' = "sleepSend"
          /\ UNCHANGED results
    /\ UNCHANGED <<lifeVars, auxVars, mediaTry, body, media, idx, res, touched, readyAtArrival>>

\* mutant of SendFailureEntry: only one of the two markers is looked for
SendFailureEntrySerializeOnly(number, err) ==
    IF includes(err, "serialize")
    THEN Entry(number, "sent_with_warning", NoErr, MsgWarning)
    ELSE Entry(number, "failed", err, NoErr)

\* the catch of the send step: the entry recorded for a send that threw err
SendFailureEntry(number, err) ==
    IF includes(err, "getMessageModel") \/ includes(err, "serialize")
    THEN Entry(number, "sent_with_warning", NoErr, MsgWarning)
    ELSE Entry(number, "failed", err, NoErr)

\* withRetries(sendMessage) after its sleep; a throw lands in the inner catch
SendRetryWake ==
    /\ pc = "sleepSend"
    /\ LET w == WRWake(wr)
       IN IF w.st = "call"
          THEN /\ wr' = w
               /\ pc' = "sendMessage"
               /\ cur' = [cur EXCEPT !.sends = @ + 1]
               /\ inflight' = inflight \cup {Call("send", idx)}
               /\ UNCHANGED results
          ELSE /\ Push(SendFailureEntry(Normalized, w.lastErr))
               /\ pc' = "gap"
               /\ wr' = NoFrame
               /\ UNCHANGED <<cur, inflight>>
    /\ UNCHANGED <<lifeVars, auxVars, mediaTry, body, media, idx, res, touched, readyAtArrival>>

\* await sleep(150) is over: the next iteration
GapWake ==
    /\ pc = "gap"
    /\ pc' = "loop"
    /\ idx' = idx + 1
    /\ UNCHANGED <<lifeVars, auxVars, mediaTry, inflight, body, media, results, wr, res,
                   cur, touched, readyAtArrival>>

HttpNext ==
    \/ PostSendWhatsapp
    \/ FromUrlSettles
    \/ AxiosSettles
    \/ MediaRetryWake
    \/ LoopHead
    \/ GetNumberIdSettles
    \/ LookupRetryWake
    \/ GetChatByIdSettles
    \/ SendMessageSettles
    \/ SendRetryWake
    \/ GapWake

\* startup and the backend's events that write clientReady, the one variable of
\* the session the handler reads
ReadinessNext ==
    \/ Startup
    \/ OnReady
    \/ OnAuthFailure
    \/ OnDisconnected

Next == ReadinessNext \/ HttpNext

Spec == Init /\ [][Next]_vars

(***************************************************************************)
(* withRetries on its own: fn is an operation of the environment, which     *)
(* returns or throws each time it is invoked.  rt.calls counts the          *)
(* invocations, rt.sleeps lists the delays slept, rt.log what fn did.       *)
(***************************************************************************)
RetryInit ==
    /\ LifeInit
    /\ HttpInit
    /\ rt = [NoRt EXCEPT !.w = WRStart, !.calls = 1]
    /\ nz = NoNz
    /\ got = NoGot
    /\ reqs = NoReqs

\* return await fn(): fn returned v
RtFnReturns ==
    /\ rt.w.st = "call"
    /\ \E v \in RetryValues :
          rt' = [rt EXCEPT !.w.st = "return",
                           !.value = v,
                           !.log = Append(@, [ok |-> TRUE, val |-> v, err |-> NoErr])]
    /\ UNCHANGED <<lifeVars, httpVars, nz, got, reqs>>

\* fn threw e: the catch block, up to await sleep(d)
RtFnThrows ==
    /\ rt.w.st = "call"
    /\ \E e \in RetryErrors :
          LET w == WRCatch(rt.w, e)
          IN rt' = [rt EXCEPT !.w = w,
                              !.sleeps = Append(@, w.delay),
                              !.log = Append(@, [ok |-> FALSE, val |-> "", err |-> e])]
    /\ UNCHANGED <<lifeVars, httpVars, nz, got, reqs>>

\* sleep(d) is over
RtWake ==
    /\ rt.w.st = "sleep"
    /\ LET w == WRWake(rt.w)
       IN rt' = [rt EXCEPT !.w = w,
                           !.calls = IF w.st = "call" THEN @ + 1 ELSE @]
    /\ UNCHANGED <<lifeVars, httpVars, nz, got, reqs>>

RetryNext ==
    \/ RtFnReturns
    \/ RtFnThrows
    \/ RtWake

RetrySpec == RetryInit /\ [][RetryNext]_vars

\* the operation settles each time it is invoked and the timers fire
RetryFairSpec == RetrySpec /\ WF_vars(RetryNext)

(***************************************************************************)
(* The GET handlers, with the whole lifecycle.  A handler runs to its end in *)
(* one step; got is the response it sent.  A time (lastQrAt) is sent as the  *)
(* time itself, 0 standing for null.                                         *)
(***************************************************************************)
\* app.get('/health')
GetHealth ==
    /\ started
    /\ got' = [NoGot EXCEPT !.route = "health", !.status = 200, !.ready = clientReady]
    /\ UNCHANGED <<lifeVars, httpVars, rt, nz, reqs>>

\* app.get('/status')
GetStatus ==
    /\ started
    /\ got' = [NoGot EXCEPT !.route = "status", !.status = 200, !.ready = clientReady,
                            !.state = clientState, !.lastQrAt = lastQrAt]
    /\ UNCHANGED <<lifeVars, httpVars, rt, nz, reqs>>

\* mutant of GetQr: a QR is served once
GetQrOnce ==
    /\ started
    /\ got' = IF lastQr = "null"
              THEN [NoGot EXCEPT !.route = "qr", !.status = 404]
              ELSE [NoGot EXCEPT !.route = "qr", !.status = 200, !.qr = lastQr,
                                 !.lastQrAt = lastQrAt]
    /\ lastQr' = "null"
    /\ UNCHANGED <<started, clientReady, clientState, reconnectTimer, intervals, lastQrAt,
                   initializing, retries, tick, pendingInit, supInit>>
    /\ UNCHANGED <<httpVars, rt, nz, reqs>>

\* app.get('/qr')
GetQr ==
    /\ started
    /\ got' = IF lastQr = "null"
              THEN [NoGot EXCEPT !.route = "qr", !.status = 404]
              ELSE [NoGot EXCEPT !.route = "qr", !.status = 200, !.qr = lastQr,
                                 !.lastQrAt = lastQrAt]
    /\ UNCHANGED <<lifeVars, httpVars, rt, nz, reqs>>

ApiNext ==
    \/ GetHealth
    \/ GetStatus
    \/ GetQr

ApiSpec == Init /\ [][LifeNext \/ ApiNext]_vars

(***************************************************************************)
(* normalizeNumber on its own: the process is configured with one value of  *)
(* DEFAULT_COUNTRY_CODE and the function is called on one raw string.       *)
(***************************************************************************)
\* the characters of a raw string: a digit and a character that is none
RawChars == {"7", "-"}
RawStrings == SeqsUpTo(RawChars, MaxRawLen)
\* process.env.DEFAULT_COUNTRY_CODE: unset, "57" or "+1"
EnvCountryCodes == {<<>>, <<"5", "7">>, <<"+", "1">>}

NormInit ==
    /\ LifeInit
    /\ HttpInit
    /\ rt = NoRt
    /\ got = NoGot
    /\ reqs = NoReqs
    /\ nz \in {[env |-> e, raw |-> r, st |-> "call", out |-> <<>>] :
                  e \in EnvCountryCodes, r \in RawStrings}

\* normalizeNumber(raw) returns
NormReturns ==
    /\ nz.st = "call"
    /\ nz' = [nz EXCEPT !.st = "done",
                        !.out = normalizeNumberWith(countryCodeOf(nz.env), nz.raw)]
    /\ UNCHANGED <<lifeVars, httpVars, rt, got, reqs>>

NormSpec == NormInit /\ [][NormReturns]_vars

(***************************************************************************)
(* Two POST /send-whatsapp requests against a ready session.  Each runs the *)
(* handler in a frame of its own; they share the backend client and the     *)
(* session variables.  The bodies carry a text and no imageUrl, so the       *)
(* handler goes from its checks straight to the loop.  Request 2 arrives     *)
(* while request 1 is in flight.                                             *)
(***************************************************************************)
ConcLookupErrors == {ErrTimeout}
ConcSendErrors == {ErrSerialize}
ConcBodies ==
    {[numbers |-> [kind |-> "array", items |-> q], imageUrl |-> "", text |-> "hi"] :
        q \in SeqsUpTo(RawNumbers, MaxConcRecipients) \ {<<>>}}

\* the session after startup and a ready event
ConcInit ==
    /\ started = TRUE
    /\ clientReady = TRUE
    /\ clientState = "INIT"
    /\ reconnectTimer = "null"
    /\ intervals = 0
    /\ lastQr = "null"
    /\ lastQrAt = 0
    /\ initializing = FALSE
    /\ retries = 0
    /\ tick = TickIdle
    /\ pendingInit = [startup |-> 0, tick |-> 0]
    /\ supInit = "none"
    /\ HttpInit
    /\ rt = NoRt
    /\ nz = NoNz
    /\ got = NoGot
    /\ reqs = NoReqs

\* mutant of ReqPush: results is one array of the module, shared by the
\* requests in flight
ReqPushShared(q, r, entry) ==
    [x \in DOMAIN q |->
        IF x = r \/ q[x].pc # "idle"
        THEN [q[x] EXCEPT !.results = Append(@, entry), !.by = Append(@, r)]
        ELSE q[x]]

\* results.push(entry) in the frame of request r; q: the frames
ReqPush(q, r, entry) ==
    [q EXCEPT ![r].results = Append(@, entry), ![r].by = Append(@, r)]

\* the handler of request r returns: its locals are gone
ReqReturn(f, response) ==
    [NoReq EXCEPT !.body = f.body, !.looked = f.looked, !.res = response,
                  !.resBy = f.by]

\* the handler up to its first await
ReqArrives(r) ==
    /\ reqs[r].pc = "idle"
    /\ reqs[r].res.status = 0
    /\ r > 1 => reqs[r - 1].pc # "idle"
    /\ \E b \in ConcBodies :
        LET v == ValidateSend(b, clientReady)
        IN reqs' = [reqs EXCEPT ![r] =
                       IF v.status # 0
                       THEN [NoReq EXCEPT !.body = b,
                                          !.res = [NoRes EXCEPT !.status = v.status,
                                                                !.error = v.error]]
                       ELSE [NoReq EXCEPT !.body = b, !.pc = "loop", !.idx = 1]]
    /\ UNCHANGED <<lifeVars, httpVars, rt, nz, got>>

\* the head of the for...of loop
ReqLoopHead(r) ==
    /\ reqs[r].pc = "loop"
    /\ LET f == reqs[r]
       IN IF f.idx > Len(f.body.numbers.items)
          THEN reqs' = [reqs EXCEPT ![r] = ReqReturn(f, Respond200(f.results))]
          ELSE LET raw == f.body.numbers.items[f.idx]
               IN IF normalizeNumber(raw) = <<>>
                  THEN reqs' = ReqPush([reqs EXCEPT ![r].idx = @ + 1], r,
                                       Entry(raw, "failed", MsgInvalid, NoErr))
                  ELSE reqs' = [reqs EXCEPT ![r].pc = "getNumberId",
                                            ![r].wr = WRStart,
                                            ![r].looked = Append(@, f.idx)]
    /\ UNCHANGED <<lifeVars, httpVars, rt, nz, got>>

\* the recipient request r is at, normalized
ReqNormalized(r) == normalizeNumber(reqs[r].body.numbers.items[reqs[r].idx])

\* withRetries(() => client.getNumberId(normalized)): the call settles
ReqGetNumberIdSettles(r) ==
    /\ reqs[r].pc = "getNumberId"
    /\ \/ reqs' = ReqPush([reqs EXCEPT ![r].idx = @ + 1, ![r].pc = "loop",
                                       ![r].wr = NoFrame], r,
                          Entry(ReqNormalized(r), "failed", MsgNoAccount, NoErr))
       \/ reqs' = [reqs EXCEPT ![r].pc = "getChatById", ![r].wr = NoFrame]
       \/ \E e \in ConcLookupErrors :
             reqs' = [reqs EXCEPT ![r].pc = "sleepLookup", ![r].wr = WRCatch(@, e)]
    /\ UNCHANGED <<lifeVars, httpVars, rt, nz, got>>

\* withRetries(getNumberId) after its sleep; a throw lands in the outer catch
ReqLookupRetryWake(r) ==
    /\ reqs[r].pc = "sleepLookup"
    /\ LET w == WRWake(reqs[r].wr)
       IN IF w.st = "call"
          THEN reqs' = [reqs EXCEPT ![r].pc = "getNumberId", ![r].wr = w]
          ELSE reqs' = ReqPush([reqs EXCEPT ![r].idx = @ + 1, ![r].pc = "loop",
                                            ![r].wr = NoFrame], r,
                               Entry(ReqNormalized(r), "failed", w.lastErr, NoErr))
    /\ UNCHANGED <<lifeVars, httpVars, rt, nz, got>>

\* try { await client.getChatById(chatId) } catch (_) {}, then sendMessage(text)
ReqGetChatByIdSettles(r) ==
    /\ reqs[r].pc = "getChatById"
    /\ reqs' = [reqs EXCEPT ![r].pc = "sendMessage", ![r].wr = WRStart]
    /\ UNCHANGED <<lifeVars, httpVars, rt, nz, got>>

\* withRetries(() => client.sendMessage(chatId, String(text))): the call settles
ReqSendMessageSettles(r) ==
    /\ reqs[r].pc = "sendMessage"
    /\ \/ reqs' = ReqPush([reqs EXCEPT ![r].pc = "gap", ![r].wr = NoFrame], r,
                          Entry(ReqNormalized(r), "sent", NoErr, NoErr))
       \/ \E e \in ConcSendErrors :
             reqs' = [reqs EXCEPT ![r].pc = "sleepSend", ![r].wr = WRCatch(@, e)]
    /\ UNCHANGED <<lifeVars, httpVars, rt, nz, got>>

\* withRetries(sendMessage) after its sleep; a throw lands in the inner catch
ReqSendRetryWake(r) ==
    /\ reqs[r].pc = "sleepSend"
    /\ LET w == WRWake(reqs[r].wr)
       IN IF w.st = "call"
          THEN reqs' = [reqs EXCEPT ![r].pc = "sendMessage", ![r].wr = w]
          ELSE reqs' = ReqPush([reqs EXCEPT ![r].pc = "gap", ![r].wr = NoFrame], r,
                               SendFailureEntry(ReqNormalized(r), w.lastErr))
    /\ UNCHANGED <<lifeVars, httpVars, rt, nz, got>>

\* await sleep(150) is over: the next iteration
ReqGapWake(r) ==
    /\ reqs[r].pc = "gap"
    /\ reqs' = [reqs EXCEPT ![r].pc = "loop", ![r].idx = @ + 1]
    /\ UNCHANGED <<lifeVars, httpVars, rt, nz, got>>

ConcNext ==
    \E r \in Requests :
        \/ ReqArrives(r)
        \/ ReqLoopHead(r)
        \/ ReqGetNumberIdSettles(r)
        \/ ReqLookupRetryWake(r)
        \/ ReqGetChatByIdSettles(r)
        \/ ReqSendMessageSettles(r)
        \/ ReqSendRetryWake(r)
        \/ ReqGapWake(r)

ConcSpec == ConcInit /\ [][ConcNext]_vars

(***************************************************************************)
(* The HTTP routes together with the writers of the session: GET /health,   *)
(* GET /status, GET /qr and POST /send-whatsapp are served while startup,    *)
(* the ready, auth_failure, disconnected and qr events happen.  A POST body  *)
(* carries at most one recipient.                                            *)
(***************************************************************************)
FrameBodies == {b \in Bodies : Len(b.numbers.items) <= 1}

FramePostSendWhatsapp == PostSendWhatsapp /\ body' \in FrameBodies

FrameNext ==
    \/ ReadinessNext
    \/ OnQr
    \/ ApiNext
    \/ FramePostSendWhatsapp
    \/ FromUrlSettles
    \/ AxiosSettles
    \/ MediaRetryWake
    \/ LoopHead
    \/ GetNumberIdSettles
    \/ LookupRetryWake
    \/ GetChatByIdSettles
    \/ SendMessageSettles
    \/ SendRetryWake
    \/ GapWake

FrameSpec == Init /\ [][FrameNext]_vars

(***************************************************************************)
(* Properties                                                              *)
(***************************************************************************)
\* a POST /send-whatsapp has arrived: it is in flight or it was answered
Arrived == pc # "idle" \/ res.status # 0
Recipients == body.numbers.items
NonEmptyNumbers == body.numbers.kind = "array" /\ Len(Recipients) > 0
InLoop == pc \in {"loop", "getNumberId", "sleepLookup", "getChatById", "sendMessage",
                  "sleepSend", "gap"}
InMedia == pc \in {"fromUrl", "axios", "sleepMedia"}
\* recipients the loop is done with
Processed == IF pc = "gap" THEN idx ELSE idx - 1
\* the number an entry for raw carries: raw itself when it is invalid
NumberOf(raw) == IF normalizeNumber(raw) = <<>> THEN raw ELSE normalizeNumber(raw)
EntriesMatch(rs) == \A i \in DOMAIN rs : i <= Len(Recipients) /\ rs[i].number = NumberOf(Recipients[i])

\* C1: the detail of a 200 response has exactly one entry per recipient, entry
\* i carrying recipient i's number, and throughout the loop the entries
\* recorded are those of the recipients already processed, in input order.
C1_OneEntryPerRecipient ==
    /\ InLoop => Len(results) = Processed /\ EntriesMatch(results)
    /\ res.status = 200 =>
          Len(res.detail) = Len(Recipients) /\ EntriesMatch(res.detail)

\* C1 witness: a response for two recipients, the first failed and the second
\* sent with a warning after the pre-warm failed
C1_Witness ==
    /\ res.status = 200
    /\ Len(res.detail) = 2
    /\ res.detail[1].status = "failed"
    /\ res.detail[1].number = RawInvalid
    /\ res.detail[2].status = "sent_with_warning"

\* the entry a recipient gets when it is the only one, from what its own
\* lookup, pre-warm and send calls answered (c); "incomplete" when the calls
\* made for it are not those a lone recipient gets
Expected(raw, c) ==
    LET n == normalizeNumber(raw)
        incomplete == Entry(raw, "incomplete", NoErr, NoErr)
        budget == 1..MAX_RETRIES
    IN IF n = <<>>
       THEN IF c = NoCur THEN Entry(raw, "failed", MsgInvalid, NoErr) ELSE incomplete
       ELSE IF c.lookup = "null"
       THEN IF c.lookups \in budget /\ c.prewarm = "none" /\ c.sends = 0
            THEN Entry(n, "failed", MsgNoAccount, NoErr) ELSE incomplete
       ELSE IF c.lookup = "err"
       THEN IF c.lookups = MAX_RETRIES /\ c.prewarm = "none" /\ c.sends = 0
            THEN Entry(n, "failed", c.lookupErr, NoErr) ELSE incomplete
       ELSE IF c.lookup = "id" /\ c.lookups \in budget /\ c.prewarm # "none"
       THEN IF c.send = "ok" /\ c.sends \in budget
            THEN Entry(n, "sent", NoErr, NoErr)
            ELSE IF c.send = "err" /\ c.sends = MAX_RETRIES
            THEN IF \E i \in DOMAIN c.sendErr : c.sendErr[i] \in {"getMessageModel", "serialize"}
                 THEN Entry(n, "sent_with_warning", NoErr, MsgWarning)
                 ELSE Entry(n, "failed", c.sendErr, NoErr)
            ELSE incomplete
       ELSE incomplete

\* the entry just recorded is the one its recipient gets alone (part of C2)
C2_LastEntryOwn ==
    (pc \in {"loop", "gap"} /\ Len(results) > 0) =>
        results[Len(results)] = Expected(Recipients[Len(results)], cur)

\* a request that reached the loop is answered 200 with all its entries
C2_AllAnswered ==
    (pc = "idle" /\ res.status # 0 /\ "lookup" \in touched) =>
        res.status = 200 /\ Len(res.detail) = Len(Recipients)

\* entries once recorded stay as they are, and the response carries them
C2_EntriesKept ==
    /\ (InLoop /\ pc' # "idle") => SubSeq(results', 1, Len(results)) = results
    /\ (InLoop /\ pc' = "idle") => res'.detail = results

\* C2: each recipient's entry is the one it would get as the only recipient of
\* the request, whatever the entries of the recipients before it, and every
\* recipient of a request that reached the loop is processed.
C2_FailureIsolation ==
    /\ [](C2_LastEntryOwn /\ C2_AllAnswered)
    /\ [][C2_EntriesKept]_vars

\* C2 witness: the second recipient is sent to after the first one's lookup
\* exhausted the retry budget
C2_Witness ==
    /\ pc = "gap"
    /\ Len(results) = 2
    /\ results[1].status = "failed"
    /\ results[1].reason \in LookupErrors
    /\ results[2].status = "sent"

\* C3 (as claimed): at most one initialize() call is pending at any moment
C3_AtMostOneInitPending == pendingInit.startup + pendingInit.tick <= 1

\* the last initialize() of the supervisor rejected, no lifecycle event came
\* since, no initialize() is pending, and the supervisor is armed
SupervisorInitFailed ==
    /\ supInit = "rejected"
    /\ pendingInit.startup + pendingInit.tick = 0
    /\ reconnectTimer # "null"
    /\ ~clientReady

\* C4 (as claimed): once a supervisor's initialize() has rejected with no
\* lifecycle event, the supervisor calls initialize() again (or the session
\* has become usable)
C4_SupervisorRetriesForever ==
    [](SupervisorInitFailed => <>(supInit = "called" \/ clientReady))

\* C5: a request with a non-empty numbers array that arrives while the session
\* is not ready is answered 503 at once and makes no external call.
C5_NotReadyIs503 ==
    (Arrived /\ NonEmptyNumbers /\ ~readyAtArrival) =>
        pc = "idle" /\ res.status = 503 /\ touched = {}

\* C5 witness: a well-formed request answered 503
C5_Witness ==
    /\ res.status = 503
    /\ NonEmptyNumbers
    /\ body.text # ""
    /\ ~readyAtArrival

\* C6: a request whose numbers is missing, no array or empty is answered 400
\* at once, ready or not, and makes no external call.
C6_BadNumbersIs400 ==
    (Arrived /\ ~NonEmptyNumbers) =>
        pc = "idle" /\ res.status = 400 /\ touched = {}

\* C6 witness: numbers: [] answered 400 while the session is not ready
C6_Witness ==
    /\ res.status = 400
    /\ body.numbers.kind = "array"
    /\ Recipients = <<>>
    /\ ~readyAtArrival

\* C7 (as claimed): a request with recipients and neither imageUrl nor text is
\* answered 400 in every session state
C7_NoContentIs400 ==
    (Arrived /\ NonEmptyNumbers /\ body.imageUrl = "" /\ body.text = "") =>
        pc = "idle" /\ res.status = 400 /\ touched = {}

Dispatch == {"lookup", "prewarm", "send"}
MediaFailed == res.status = 400 /\ res.error = "No se pudo preparar la imagen"

C8_NoDispatchBeforeMedia ==
    /\ MediaFailed => touched \cap Dispatch = {} /\ res.detail = <<>>
    /\ InMedia => touched \cap Dispatch = {} /\ results = <<>> /\ media = NoMedia
    /\ InLoop => (body.imageUrl # "" <=> media # NoMedia)

\* the step that ends the sleep after the last failed attempt answers 400
C8_ExhaustedIs400 ==
    (pc = "sleepMedia" /\ wr.attempt = 2 /\ pc' # pc) => (pc' = "idle" /\ MediaFailed')

\* C8: when every attempt to resolve the media fails, the answer is 400 and no
\* recipient is looked up, pre-warmed or sent to; the loop runs only with the
\* media resolved or no imageUrl given.
C8_MediaFailureIs400 ==
    /\ []C8_NoDispatchBeforeMedia
    /\ [][C8_ExhaustedIs400]_vars

\* C8 witness: the 400 of a request with recipients whose media never resolved
C8_Witness == MediaFailed /\ NonEmptyNumbers /\ touched = {"media", "fallback"}

\* the operation failed k times and then succeeded
RtFailures == Len(rt.log) - 1
RtFailedThenOk ==
    /\ rt.log # <<>>
    /\ rt.log[Len(rt.log)].ok
    /\ \A i \in 1..RtFailures : ~rt.log[i].ok

\* C9: an operation that fails k < 3 times and then succeeds is invoked k + 1
\* times, with k sleeps of 500 * 2^a ms after attempt a, and withRetries
\* returns the value of the last invocation.
C9_RetryThenSuccess ==
    (RtFailedThenOk /\ RtFailures < 3) =>
        /\ rt.w.st = "return"
        /\ rt.calls = RtFailures + 1
        /\ rt.sleeps = [a \in 1..RtFailures |-> 500 * 2^(a - 1)]
        /\ rt.value = rt.log[Len(rt.log)].val

\* C9 witness: success at the third invocation
C9_Witness == rt.w.st = "return" /\ RtFailures = 2

RtAllFailed == \A i \in DOMAIN rt.log : ~rt.log[i].ok

C10_BudgetAndLastError ==
    RtAllFailed =>
        /\ rt.calls <= 3
        /\ Len(rt.log) = 3 => rt.w.st \in {"sleep", "throw"}
        /\ rt.w.st = "throw" =>
              rt.calls = 3 /\ Len(rt.log) = 3 /\ rt.w.lastErr = rt.log[3].err

\* C10: an operation that always fails is invoked exactly 3 times, after
\* which withRetries ends, throwing the error of the third invocation.
C10_AlwaysFailingExhausts ==
    /\ []C10_BudgetAndLastError
    /\ <>(rt.w.st \in {"return", "throw"})

\* C10 witness: thrown after three failures, the last error unlike the first
C10_Witness ==
    /\ rt.w.st = "throw"
    /\ rt.log[1].err # rt.log[3].err

\* the digits of the raw string and of the configured prefix
NzDigits == SelectSeq(nz.raw, LAMBDA c : c \in Digits)
NzPrefix == SelectSeq(nz.env, LAMBDA c : c \in Digits)

\* C11: with d the digits of the raw string, normalizeNumber returns d when
\* |d| >= 11, prefix + d when 8 <= |d| <= 10 (d itself when no prefix is
\* configured) and none when |d| < 8 whatever the prefix; a result that is not
\* none has at least 8 characters, all digits.
C11_NormalizeContract ==
    nz.st = "done" =>
        /\ Len(NzDigits) >= 11 => nz.out = NzDigits
        /\ (Len(NzDigits) >= 8 /\ Len(NzDigits) <= 10) => nz.out = NzPrefix \o NzDigits
        /\ Len(NzDigits) < 8 => nz.out = <<>>
        /\ nz.out # <<>> =>
              Len(nz.out) >= 8 /\ \A i \in DOMAIN nz.out : nz.out[i] \in Digits

\* C11 witness: ten digits among other characters, prefixed with the digits of
\* DEFAULT_COUNTRY_CODE=+1
C11_Witness ==
    /\ nz.st = "done"
    /\ nz.env = <<"+", "1">>
    /\ Len(nz.raw) = 12
    /\ Len(NzDigits) = 10
    /\ nz.out = <<"1">> \o NzDigits

\* C12 (as claimed): within one request the content is transmitted to a
\* recipient at most once, also when sendMessage raises the serialization
\* defect after the transmission
C12_TransmittedAtMostOnce == cur.transmits <= 1

\* the send step of the recipient just recorded failed: withRetries threw
\* cur.sendErr
SendStepFailed == pc = "gap" /\ cur.send = "err"
HasDefectMarker(err) == \E i \in DOMAIN err : err[i] \in {"getMessageModel", "serialize"}

\* C13: the entry of a recipient whose send step failed is sent_with_warning
\* exactly when the error thrown carries a marker of the serialization defect,
\* and failed with the error as its reason otherwise; the response counts the
\* sent_with_warning entries with the sent ones, never with the failed ones.
C13_WarningIffMarker ==
    /\ SendStepFailed =>
          LET e == results[Len(results)]
          IN /\ e.status = "sent_with_warning" <=> HasDefectMarker(cur.sendErr)
             /\ ~HasDefectMarker(cur.sendErr) =>
                   e.status = "failed" /\ e.reason = cur.sendErr
    /\ res.status = 200 =>
          /\ res.sent = Cardinality({i \in DOMAIN res.detail :
                                       res.detail[i].status \in {"sent", "sent_with_warning"}})
          /\ res.failed = Cardinality({i \in DOMAIN res.detail :
                                         res.detail[i].status = "failed"})
          /\ res.sent + res.failed = Len(res.detail)

\* C13 witness: a response counting one failed send (a timeout) and one send
\* that ended with the getMessageModel error
C13_Witness ==
    /\ res.status = 200
    /\ Len(res.detail) = 2
    /\ res.detail[1].status = "failed"
    /\ res.detail[1].reason = ErrTimeout
    /\ res.detail[2].status = "sent_with_warning"
    /\ res.sent = 1
    /\ res.failed = 1

\* what buildMediaFromUrl returns after a fallback fetch whose content-type
\* header is ct ("" when the header is absent)
FallbackMime(ct) == IF ct # "" THEN ct ELSE "image/jpeg"

C14_PrimaryThenFallback ==
    /\ mediaTry.fallback # "none" <=> mediaTry.primary = "err"
    /\ mediaTry.primary = "ok" => ~InMedia /\ media \in PrimaryMimes
    /\ mediaTry.fallback = "ok" => ~InMedia /\ media = FallbackMime(mediaTry.ct)
    /\ pc = "fromUrl" <=> mediaTry.primary = "pending"
    /\ pc = "axios" <=> mediaTry.fallback = "pending"
    /\ pc = "sleepMedia" <=> mediaTry.fallback = "err"
    /\ mediaTry.n <= 3

\* after both paths failed the next step is the whole pair again, from the
\* primary path, or (after the third attempt) the end of the request
C14_RerunAsAWhole ==
    (pc = "sleepMedia" /\ pc' # pc) =>
        IF mediaTry.n < 3
        THEN pc' = "fromUrl" /\ mediaTry' = [NoTry EXCEPT !.n = mediaTry.n + 1,
                                                            !.primary = "pending"]
        ELSE pc' = "idle"

\* C14: in each attempt to resolve the media the fallback fetch is made exactly
\* when the primary path failed in that attempt, and after it; a primary
\* success is returned with no fallback fetch; a fallback success gives the
\* fetched content-type as mime type (image/jpeg without the header); when
\* both fail the pair is run again as a whole, at most 3 times in all.
C14_MediaResolution ==
    /\ []C14_PrimaryThenFallback
    /\ [][C14_RerunAsAWhole]_vars

\* C14 witness: the third attempt's fallback fetch succeeded with no
\* content-type header
C14_Witness ==
    /\ pc = "loop"
    /\ mediaTry.n = 3
    /\ mediaTry.primary = "err"
    /\ mediaTry.fallback = "ok"
    /\ mediaTry.ct = ""
    /\ media = "image/jpeg"

\* C15 (as claimed): a usable session has no reconnect supervisor armed
C15_ReadyHasNoSupervisor == clientReady => reconnectTimer = "null"

\* the events that arm the supervisor
ArmingEvent == OnAuthFailure \/ OnDisconnected \/ StartupInitRejects

C16_AtMostOneInterval ==
    /\ intervals <= 1
    /\ reconnectTimer # "null" <=> intervals = 1

\* an arming event leaves the session unusable with one supervisor armed, the
\* one that was armed (with its counter) if there was one
C16_ArmedOnce ==
    ArmingEvent =>
        /\ ~clientReady'
        /\ reconnectTimer' # "null"
        /\ intervals' = 1
        /\ reconnectTimer # "null" => UNCHANGED <<reconnectTimer, intervals, retries>>

\* an armed supervisor stays until a ready event
C16_UntilReady ==
    (reconnectTimer # "null" /\ reconnectTimer' = "null") => clientReady'

\* C16 (as claimed): at most one reconnect supervisor exists at any time; after
\* auth_failure, disconnected or a startup failure the session is unusable and
\* exactly one supervisor is armed until the next ready event; arming while
\* one is armed changes nothing.
C16_OneSupervisor ==
    /\ []C16_AtMostOneInterval
    /\ [][C16_ArmedOnce]_vars
    /\ [][C16_UntilReady]_vars

\* the claim without the session being unusable
C16_TimersOnly ==
    /\ []C16_AtMostOneInterval
    /\ [][ArmingEvent => reconnectTimer' # "null" /\ intervals' = 1]_vars
    /\ [][(ArmingEvent /\ reconnectTimer # "null") =>
              UNCHANGED <<reconnectTimer, intervals, retries>>]_vars
    /\ [][C16_UntilReady]_vars

\* the step is an initialize() call of the supervisor
SupervisorCallsInitialize == pendingInit'.tick > pendingInit.tick

\* C17 (as claimed): the supervisor calls initialize() only while the session
\* is unusable, no initialization is in flight and the supervisor is armed,
\* whatever events came between its tick's check and the call
C17_SupervisorCallsOnlyWhenDown ==
    [][SupervisorCallsInitialize =>
          /\ ~clientReady
          /\ pendingInit.startup + pendingInit.tick = 0
          /\ reconnectTimer # "null"]_vars

\* the part of C17 about the session alone: no initialize() call of the
\* supervisor on a usable session
C17_NoCallWhenReady == [][SupervisorCallsInitialize => ~clientReady]_vars

\* C18 (as claimed): the state GET /status reports is INIT at the start and
\* follows the lifecycle: it is READY exactly while the session is usable
C18_StatusFollowsLifecycle ==
    /\ ~started => clientState = "INIT"
    /\ got.route = "status" => (got.ready <=> got.state = "READY")

\* the session dropped: it is unusable and the supervisor is armed
SessionDropped == ~clientReady /\ reconnectTimer # "null"

\* C19: after a disconnected or auth_failure event, with the timers firing and
\* a backend that answers initialize() with ready, the session becomes usable
\* again, the supervisor cleared, with no request and no operator.
C19_SelfHealing ==
    [](SessionDropped => <>(clientReady /\ reconnectTimer = "null"))

\* C19 witness: a session made usable again by an initialize() call of the
\* supervisor
C19_Witness ==
    /\ clientReady
    /\ reconnectTimer = "null"
    /\ supInit = "resolved"
    /\ pc = "idle"
    /\ res = NoRes

\* C20: the recipients of a request are processed one after the other: at
\* most one backend call (lookup, pre-warm or send) of the request is pending,
\* a pending call is for the recipient right after those whose result is
\* recorded, and no send call is made for a recipient whose number is invalid
\* or whose lookup found no account.
C20_Sequential ==
    /\ Cardinality(inflight) <= 1
    /\ \A c \in inflight :
          /\ c.i = Len(results) + 1
          /\ c.i <= Len(Recipients)
          /\ normalizeNumber(Recipients[c.i]) # <<>>
          /\ c.op = "send" => cur.lookup = "id"
    /\ (pc \in {"loop", "gap"} /\ Len(results) > 0) =>
          LET raw == Recipients[Len(results)]
          IN (normalizeNumber(raw) = <<>> \/ cur.lookup = "null") =>
                cur.sends = 0 /\ cur.prewarm = "none" /\ cur.transmits = 0

\* C20 witness: the send call of the second recipient is pending, after a
\* first recipient without account
C20_Witness ==
    /\ inflight = {[op |-> "send", i |-> 2]}
    /\ Len(results) = 1
    /\ results[1].reason = MsgNoAccount
    /\ cur.sends = 2

(***************************************************************************)
(* C21: two requests in flight together                                    *)
(***************************************************************************)
\* the number field the handler reports for a raw recipient
ReportedNumber(raw) == IF normalizeNumber(raw) = <<>> THEN raw ELSE normalizeNumber(raw)

\* entries rs, pushed by the requests in who, are the first Len(rs) recipients
\* of request r, in input order, each pushed by r
OwnEntries(r, rs, who) ==
    /\ Len(rs) <= Len(reqs[r].body.numbers.items)
    /\ Len(who) = Len(rs)
    /\ \A i \in DOMAIN rs :
        /\ who[i] = r
        /\ rs[i].number = ReportedNumber(reqs[r].body.numbers.items[i])

\* the recipients request r is through with
ReqDone(r) == IF reqs[r].pc = "gap" THEN reqs[r].idx ELSE reqs[r].idx - 1

\* the positions of request r that had a lookup dispatched are its valid
\* recipients up to position n, each once, in order
DispatchedOnce(r, n) ==
    LET items == reqs[r].body.numbers.items
        log == reqs[r].looked
    IN /\ \A i \in 1..n : normalizeNumber(items[i]) # <<>> =>
                Cardinality({k \in DOMAIN log : log[k] = i}) = 1
       /\ \A k \in DOMAIN log : log[k] \in 1..n /\ normalizeNumber(items[log[k]]) # <<>>
       /\ \A k \in DOMAIN log : k > 1 => log[k - 1] < log[k]

\* C21: under every interleaving of two POST /send-whatsapp requests against a
\* ready session, each request's results, while it runs and in its response,
\* hold one entry per recipient of its own request, in its own input order, and
\* none pushed by the other request; each valid recipient has its lookup
\* dispatched once per request, whatever the other request did with the same
\* recipient; two requests with the same body get result sequences of equal
\* length.
C21_RequestsIsolated ==
    /\ \A r \in Requests :
        /\ reqs[r].pc # "idle" =>
              /\ OwnEntries(r, reqs[r].results, reqs[r].by)
              /\ Len(reqs[r].results) = ReqDone(r)
              /\ DispatchedOnce(r, IF reqs[r].pc \in {"loop", "gap"}
                                   THEN ReqDone(r) ELSE reqs[r].idx)
        /\ reqs[r].res.status # 0 =>
              /\ reqs[r].res.status = 200
              /\ OwnEntries(r, reqs[r].res.detail, reqs[r].resBy)
              /\ Len(reqs[r].res.detail) = Len(reqs[r].body.numbers.items)
              /\ DispatchedOnce(r, Len(reqs[r].body.numbers.items))
    /\ \A r1, r2 \in Requests :
          (/\ reqs[r1].res.status = 200
           /\ reqs[r2].res.status = 200
           /\ reqs[r1].body = reqs[r2].body)
          => Len(reqs[r1].res.detail) = Len(reqs[r2].res.detail)

\* both requests carried the same two recipients, ran together, and each was
\* answered with its own two entries
C21_Witness ==
    /\ reqs[1].res.status = 200
    /\ reqs[2].res.status = 200
    /\ reqs[1].body = reqs[2].body
    /\ reqs[1].body.numbers.items = <<RawLocal, RawInvalid>>
    /\ Len(reqs[1].res.detail) = 2
    /\ Len(reqs[2].res.detail) = 2
    /\ reqs[1].res.detail[1].status = "sent"
    /\ reqs[2].res.detail[1].status = "failed"
    /\ reqs[1].looked = <<1>>
    /\ reqs[2].looked = <<1>>

(***************************************************************************)
(* C22: the HTTP routes leave the session alone                            *)
(***************************************************************************)
\* readiness, state, last QR payload and timestamp, the in-flight
\* initialization flag, the reconnect supervisor and its bookkeeping
SessionVars ==
    <<clientReady, clientState, lastQr, lastQrAt, initializing, reconnectTimer, intervals,
      retries, tick, pendingInit, supInit>>

\* a step of an HTTP route: a request is taken, a handler moves on or a
\* response is sent
HttpStep == httpVars' # httpVars \/ got' # got

\* C22: no step of GET /health, GET /status, GET /qr or POST /send-whatsapp
\* (whatever validation, media, lookup or send failure and retry it goes
\* through) changes readiness, state, the last QR payload and timestamp, the
\* initialization flag or the reconnect supervisor; every step that changes
\* one of them is a step of startup or of a lifecycle event.
C22_RequestsLeaveSession ==
    [][/\ HttpStep => UNCHANGED SessionVars
       /\ SessionVars' # SessionVars => ReadinessNext \/ OnQr]_vars

\* a POST was answered 200 with a recipient failed after the lookup's retries
\* ran out, GET /qr has served the QR, and the session is ready with that QR
C22_Witness ==
    /\ res.status = 200
    /\ Len(res.detail) = 1
    /\ res.detail[1].status = "failed"
    /\ res.detail[1].reason \in LookupErrors
    /\ got.route = "qr"
    /\ got.status = 200
    /\ got.qr = lastQr
    /\ got.lastQrAt = lastQrAt
    /\ clientReady

====
